---------------------------- MODULE Spec2Model ----------------------------
(***************************************************************************)
(* NLP_Toolkit: the worker pool (ThreadPool.h / ThreadPool.cpp) and the    *)
(* chunked batch operations built on it (Tokenizer.cpp, Toolkit.cpp).      *)
(*                                                                         *)
(* Threads are numbered: workers 1..threads, the thread that owns the pool *)
(* is Main, further producer threads are the members of Producers.  A      *)
(* mutex is modelled by the number of the thread holding it (Free: none).  *)
(***************************************************************************)
EXTENDS Integers, Sequences, FiniteSets, TLC

\* ------------------------------------------------------------------ bounds
MaxThreads == 2          \* largest thread count a pool is constructed with
MaxTasks == 3            \* enqueue calls made by the producers of SpecPool

Free == 0
Main == 100
Producers == {101, 102}

VARIABLES
    \* ThreadPool object (ThreadPool.h:12-16)
    threads,      \* workers.size()
    wpc,          \* position of each worker thread in its loop
    wtask,        \* the task a worker moved out of the queue (0: none)
    joinable,     \* std::thread::joinable() of each element of workers
    tasks,        \* std::queue tasks: a sequence of task ids
    queueMutex,   \* holder of queueMutex
    stop,         \* bool stop
    alive,        \* the object's members have not been destroyed
    wsize,        \* workers.size() as a read of the member yields it
    \* the packaged tasks and their futures
    made,         \* number of packaged_task objects created so far
    throws,       \* per task: does its body raise an error
    fut,          \* per task: the shared state of its future
    accepted,     \* tasks pushed by enqueue
    rejected,     \* tasks whose enqueue threw runtime_error
    taken,        \* per task: how many times a worker popped it
    ran,          \* per task: how many times its body was executed
    \* threads calling enqueue
    ppc,          \* position of each producer inside enqueue
    ptask,        \* the task a producer is enqueueing
    \* ~ThreadPool
    dpc,          \* position of the destructor body
    dj,           \* index of the next element of workers to join
    dcalls,       \* how many times the destructor has been invoked
    \* Tokenizer object (Tokenizer.h:8-11)
    tokenToId,    \* unordered_map tokenToId
    idToToken,    \* vector idToToken (0-based ids: idToToken[id + 1])
    unknownId,    \* int unknownId
    \* the thread calling a batch operation, and the operation's locals
    op,           \* the operation called
    cpc,          \* position of the caller inside the operation
    maxThreads,   \* what std::thread::hardware_concurrency() returns
    requested,    \* the numThreads argument
    logFile,      \* the logFile argument
    numThreads,   \* the local numThreads after normalisation
    items,        \* the input sequence (sentences, id sequences or tokens)
    ci,           \* loop index of the caller
    chunks,       \* per chunk: the range computed for it (and its tokens)
    futures,      \* vector futures: task ids in push_back order
    fres,         \* per task: the value its future holds
    results,      \* vector results
    ret,          \* what the call returned
    \* what the rest of the program observes
    logged,       \* what writeToFile has appended to files
    reads         \* per task: what the calls of future.get() yielded

poolVars == <<threads, wpc, wtask, joinable, tasks, queueMutex, stop, alive, wsize>>
taskVars == <<made, throws, fut, accepted, rejected, taken, ran>>
prodVars == <<ppc, ptask>>
dtorVars == <<dpc, dj, dcalls>>
tokVars == <<tokenToId, idToToken, unknownId>>
callVars == <<op, cpc, maxThreads, requested, logFile, numThreads, items, ci, chunks,
              futures, fres, results, ret>>
obsVars == <<logged, reads>>
envVars == <<tokVars, callVars, obsVars>>
vars == <<poolVars, taskVars, prodVars, dtorVars, envVars>>

Workers == 1..threads
TaskIds == 1..made

\* ------------------------------------------------------------- task bodies
\* Tokenizer.cpp:69,73  decode throws out_of_range on an id outside idToToken
DecodeThrows(ids) ==
    \E i \in 1..Len(ids) : ~(ids[i] >= 0 /\ ids[i] < Len(idToToken))

\* Does the body of task t raise: a task of SpecPool as chosen when it was
\* made; Tokenizer.cpp:158-164 the block task of batchDecode when decode
\* throws for one of its sentences; no other task body raises
\* (Tokenizer.cpp:110-116 encode never throws, Toolkit.cpp:192-196).
BodyThrows(t) ==
    CASE op = "none" -> throws[t]
      [] op = "batchDecode" ->
            \E k \in 1..Len(chunks[t].part) : DecodeThrows(chunks[t].part[k])
      [] OTHER -> FALSE

\* ----------------------------------------------------------- worker loop
\* ThreadPool.cpp:31-33  the predicate of condition.wait
WaitPredicate == stop \/ tasks # <<>>

ExitConditionStopOnly == stop
\* ThreadPool.cpp:35  if (stop && tasks.empty()) return;
ExitCondition == stop /\ tasks = <<>>

\* ThreadPool.cpp:29  std::unique_lock lock(queueMutex)  (also re-locking
\* after a wake-up inside condition.wait)
WorkerLock(w) ==
    /\ w \in Workers
    /\ wpc[w] = "lock"
    /\ queueMutex = Free
    /\ queueMutex' = w
    /\ wpc' = [wpc EXCEPT ![w] = "locked"]
    /\ UNCHANGED <<threads, wtask, joinable, tasks, stop, alive, wsize>>
    /\ UNCHANGED <<taskVars, prodVars, dtorVars>>

\* ThreadPool.cpp:31-33  predicate false: release the mutex and block
WorkerWait(w) ==
    /\ w \in Workers
    /\ wpc[w] = "locked"
    /\ queueMutex = w
    /\ ~WaitPredicate
    /\ queueMutex' = Free
    /\ wpc' = [wpc EXCEPT ![w] = "waiting"]
    /\ UNCHANGED <<threads, wtask, joinable, tasks, stop, alive, wsize>>
    /\ UNCHANGED <<taskVars, prodVars, dtorVars>>

\* a spurious wake-up of condition.wait: the predicate is evaluated again
WorkerSpuriousWake(w) ==
    /\ w \in Workers
    /\ wpc[w] = "waiting"
    /\ wpc' = [wpc EXCEPT ![w] = "lock"]
    /\ UNCHANGED <<threads, wtask, joinable, tasks, queueMutex, stop, alive, wsize>>
    /\ UNCHANGED <<taskVars, prodVars, dtorVars>>

\* ThreadPool.cpp:35-36  return from the thread function
WorkerExit(w) ==
    /\ w \in Workers
    /\ wpc[w] = "locked"
    /\ queueMutex = w
    /\ WaitPredicate
    /\ ExitCondition
    /\ queueMutex' = Free
    /\ wpc' = [wpc EXCEPT ![w] = "done"]
    /\ UNCHANGED <<threads, wtask, joinable, tasks, stop, alive, wsize>>
    /\ UNCHANGED <<taskVars, prodVars, dtorVars>>

WorkerTakeNoPop(w) ==
    /\ w \in Workers
    /\ wpc[w] = "locked"
    /\ queueMutex = w
    /\ WaitPredicate
    /\ ~ExitCondition
    /\ tasks # <<>>
    /\ wtask' = [wtask EXCEPT ![w] = Head(tasks)]
    /\ taken' = [taken EXCEPT ![Head(tasks)] = @ + 1]
    /\ queueMutex' = Free
    /\ wpc' = [wpc EXCEPT ![w] = "run"]
    /\ UNCHANGED <<threads, joinable, tasks, stop, alive, wsize>>
    /\ UNCHANGED <<made, throws, fut, accepted, rejected, ran>>
    /\ UNCHANGED <<prodVars, dtorVars>>

\* the worker takes the newest task: tasks.back() in place of tasks.front()
WorkerTakeBack(w) ==
    /\ w \in Workers
    /\ wpc[w] = "locked"
    /\ queueMutex = w
    /\ WaitPredicate
    /\ ~ExitCondition
    /\ tasks # <<>>
    /\ wtask' = [wtask EXCEPT ![w] = tasks[Len(tasks)]]
    /\ tasks' = SubSeq(tasks, 1, Len(tasks) - 1)
    /\ taken' = [taken EXCEPT ![tasks[Len(tasks)]] = @ + 1]
    /\ queueMutex' = Free
    /\ wpc' = [wpc EXCEPT ![w] = "run"]
    /\ UNCHANGED <<threads, joinable, stop, alive, wsize>>
    /\ UNCHANGED <<made, throws, fut, accepted, rejected, ran>>
    /\ UNCHANGED <<prodVars, dtorVars>>

\* the worker keeps queueMutex while it runs the task: no lock.unlock()
WorkerTakeKeepLock(w) ==
    /\ w \in Workers
    /\ wpc[w] = "locked"
    /\ queueMutex = w
    /\ WaitPredicate
    /\ ~ExitCondition
    /\ tasks # <<>>
    /\ wtask' = [wtask EXCEPT ![w] = Head(tasks)]
    /\ tasks' = Tail(tasks)
    /\ taken' = [taken EXCEPT ![Head(tasks)] = @ + 1]
    /\ wpc' = [wpc EXCEPT ![w] = "run"]
    /\ UNCHANGED <<threads, joinable, queueMutex, stop, alive, wsize>>
    /\ UNCHANGED <<made, throws, fut, accepted, rejected, ran>>
    /\ UNCHANGED <<prodVars, dtorVars>>

\* ThreadPool.cpp:38-40  task = move(tasks.front()); tasks.pop(); unlock
WorkerTake(w) ==
    /\ w \in Workers
    /\ wpc[w] = "locked"
    /\ queueMutex = w
    /\ WaitPredicate
    /\ ~ExitCondition
    /\ tasks # <<>>
    /\ wtask' = [wtask EXCEPT ![w] = Head(tasks)]
    /\ tasks' = Tail(tasks)
    /\ taken' = [taken EXCEPT ![Head(tasks)] = @ + 1]
    /\ queueMutex' = Free
    /\ wpc' = [wpc EXCEPT ![w] = "run"]
    /\ UNCHANGED <<threads, joinable, stop, alive, wsize>>
    /\ UNCHANGED <<made, throws, fut, accepted, rejected, ran>>
    /\ UNCHANGED <<prodVars, dtorVars>>

\* ThreadPool.h:45-47,53  the queued closure invokes a packaged_task: the
\* value or the error of the body is stored in the task's shared state and
\* nothing propagates into the worker.  A second invocation of the same
\* packaged_task raises future_error inside the worker thread.
Outcome(t) == IF BodyThrows(t) THEN "error" ELSE "value"

WorkerRunUnguarded(w) ==
    /\ w \in Workers
    /\ wpc[w] = "run"
    /\ LET t == wtask[w] IN
        /\ ran' = [ran EXCEPT ![t] = @ + 1]
        /\ IF BodyThrows(t)
             THEN /\ wpc' = [wpc EXCEPT ![w] = "done"]
                  /\ fut' = fut
             ELSE /\ wpc' = [wpc EXCEPT ![w] = "lock"]
                  /\ fut' = [fut EXCEPT ![t] = "value"]
    /\ wtask' = [wtask EXCEPT ![w] = 0]
    /\ UNCHANGED <<threads, joinable, tasks, queueMutex, stop, alive, wsize>>
    /\ UNCHANGED <<made, throws, accepted, rejected, taken>>
    /\ UNCHANGED <<prodVars, dtorVars>>

\* ThreadPool.cpp:42  task();
WorkerRun(w) ==
    /\ w \in Workers
    /\ wpc[w] = "run"
    /\ LET t == wtask[w] IN
        /\ ran' = [ran EXCEPT ![t] = @ + 1]
        /\ fut' = [fut EXCEPT ![t] = IF @ = "pending" THEN Outcome(t) ELSE @]
        /\ wpc' = [wpc EXCEPT ![w] = IF fut[t] = "pending" THEN "lock" ELSE "terminated"]
    /\ wtask' = [wtask EXCEPT ![w] = 0]
    /\ UNCHANGED <<threads, joinable, tasks, queueMutex, stop, alive, wsize>>
    /\ UNCHANGED <<made, throws, accepted, rejected, taken>>
    /\ UNCHANGED <<prodVars, dtorVars>>

\* ----------------------------------------------------------------- enqueue
NotifyOneLost == wpc' = wpc

\* condition.notify_one(): wakes one thread blocked in condition.wait, if any
NotifyOne ==
    IF \E w \in Workers : wpc[w] = "waiting"
      THEN \E w \in Workers :
              /\ wpc[w] = "waiting"
              /\ wpc' = [wpc EXCEPT ![w] = "lock"]
      ELSE wpc' = wpc

\* condition.notify_all()
NotifyAll ==
    wpc' = [w \in Workers |-> IF wpc[w] = "waiting" THEN "lock" ELSE wpc[w]]

\* ThreadPool.h:45-51  make the packaged_task and its future, lock queueMutex
EnqueueLock(p, b) ==
    /\ ppc[p] = "idle"
    /\ alive
    /\ queueMutex = Free
    /\ queueMutex' = p
    /\ made' = made + 1
    /\ throws' = throws @@ ((made + 1) :> b)
    /\ fut' = fut @@ ((made + 1) :> "pending")
    /\ taken' = taken @@ ((made + 1) :> 0)
    /\ ran' = ran @@ ((made + 1) :> 0)
    /\ ptask' = [ptask EXCEPT ![p] = made + 1]
    /\ ppc' = [ppc EXCEPT ![p] = "locked"]
    /\ UNCHANGED <<threads, wpc, wtask, joinable, tasks, stop, alive, wsize>>
    /\ UNCHANGED <<accepted, rejected, dtorVars>>

EnqueuePushUnchecked(p) ==
    /\ ppc[p] = "locked"
    /\ queueMutex = p
    /\ tasks' = Append(tasks, ptask[p])
    /\ accepted' = accepted \cup {ptask[p]}
    /\ rejected' = rejected
    /\ ppc' = [ppc EXCEPT ![p] = "notify"]
    /\ ptask' = ptask
    /\ queueMutex' = Free
    /\ UNCHANGED <<threads, wpc, wtask, joinable, stop, alive, wsize>>
    /\ UNCHANGED <<made, throws, fut, taken, ran, dtorVars>>

\* ThreadPool.h:52-54  if (stop) throw runtime_error; tasks.emplace(...); unlock
EnqueuePush(p) ==
    /\ ppc[p] = "locked"
    /\ queueMutex = p
    /\ IF stop
         THEN /\ rejected' = rejected \cup {ptask[p]}
              /\ ppc' = [ppc EXCEPT ![p] = "idle"]
              /\ ptask' = [ptask EXCEPT ![p] = 0]
              /\ UNCHANGED <<tasks, accepted>>
         ELSE /\ tasks' = Append(tasks, ptask[p])
              /\ accepted' = accepted \cup {ptask[p]}
              /\ ppc' = [ppc EXCEPT ![p] = "notify"]
              /\ UNCHANGED <<rejected, ptask>>
    /\ queueMutex' = Free
    /\ UNCHANGED <<threads, wpc, wtask, joinable, stop, alive, wsize>>
    /\ UNCHANGED <<made, throws, fut, taken, ran, dtorVars>>

\* ThreadPool.h:55-56  condition.notify_one(); return res;
EnqueueNotify(p) ==
    /\ ppc[p] = "notify"
    /\ NotifyOne
    /\ ppc' = [ppc EXCEPT ![p] = "idle"]
    /\ ptask' = [ptask EXCEPT ![p] = 0]
    /\ UNCHANGED <<threads, wtask, joinable, tasks, queueMutex, stop, alive, wsize>>
    /\ UNCHANGED <<taskVars, dtorVars>>

\* ------------------------------------------------------------- ~ThreadPool
DtorLockSkipped ==
    /\ dpc = "idle"
    /\ dpc' = "locked"
    /\ dcalls' = dcalls + 1
    /\ UNCHANGED <<threads, wpc, wtask, joinable, tasks, queueMutex, stop, alive, wsize>>
    /\ UNCHANGED <<taskVars, prodVars, dj>>

\* ThreadPool.cpp:50  std::unique_lock lock(queueMutex)
DtorLock ==
    /\ dpc = "idle"
    /\ queueMutex = Free
    /\ queueMutex' = Main
    /\ dpc' = "locked"
    /\ dcalls' = dcalls + 1
    /\ UNCHANGED <<threads, wpc, wtask, joinable, tasks, stop, alive, wsize>>
    /\ UNCHANGED <<taskVars, prodVars, dj>>

\* ThreadPool.cpp:51-52  stop = true; unlock
DtorSetStop ==
    /\ dpc = "locked"
    /\ queueMutex = Main
    /\ stop' = TRUE
    /\ queueMutex' = Free
    /\ dpc' = "notify"
    /\ UNCHANGED <<threads, wpc, wtask, joinable, tasks, alive, wsize>>
    /\ UNCHANGED <<taskVars, prodVars, dj, dcalls>>

\* ThreadPool.cpp:53  condition.notify_all();
DtorNotifyAll ==
    /\ dpc = "notify"
    /\ NotifyAll
    /\ dpc' = "join"
    /\ dj' = 1
    /\ UNCHANGED <<threads, wtask, joinable, tasks, queueMutex, stop, alive, wsize>>
    /\ UNCHANGED <<taskVars, prodVars, dcalls>>

DtorJoinNoWait ==
    /\ dpc = "join"
    /\ dj <= wsize
    /\ joinable' = [joinable EXCEPT ![dj] = FALSE]
    /\ dj' = dj + 1
    /\ dpc' = dpc
    /\ UNCHANGED <<threads, wpc, wtask, tasks, queueMutex, stop, alive, wsize>>
    /\ UNCHANGED <<taskVars, prodVars, dcalls>>

\* ThreadPool.cpp:54  worker.join(): returns once the thread function of
\* workers[dj] has returned; on a thread that is not joinable it throws
\* std::system_error.  A worker whose thread function let an exception
\* escape ("terminated") has ended the process: join never returns.
DtorJoin ==
    /\ dpc = "join"
    /\ dj <= wsize
    /\ IF joinable[dj]
         THEN /\ wpc[dj] = "done"
              /\ joinable' = [joinable EXCEPT ![dj] = FALSE]
              /\ dj' = dj + 1
              /\ dpc' = dpc
         ELSE /\ dpc' = "failed"
              /\ UNCHANGED <<joinable, dj>>
    /\ UNCHANGED <<threads, wpc, wtask, tasks, queueMutex, stop, alive, wsize>>
    /\ UNCHANGED <<taskVars, prodVars, dcalls>>

\* ThreadPool.cpp:55  end of the destructor body: the members are destroyed.
\* What a later read of the destroyed vector workers yields is not defined:
\* an implementation that resets the vector shows it empty, one that only
\* frees the storage shows the old elements.
DtorReturn ==
    /\ dpc = "join"
    /\ dj > wsize
    /\ dpc' = "done"
    /\ alive' = FALSE
    /\ wsize' \in {0, threads}
    /\ UNCHANGED <<threads, wpc, wtask, joinable, tasks, queueMutex, stop>>
    /\ UNCHANGED <<taskVars, prodVars, dj, dcalls>>

\* ------------------------------------------------------------ construction
\* ThreadPool.cpp:3,23-45  ThreadPool(n): stop(false), n worker threads started
PoolInit(n) ==
    /\ threads = n
    /\ wpc = [w \in 1..n |-> "lock"]
    /\ wtask = [w \in 1..n |-> 0]
    /\ joinable = [w \in 1..n |-> TRUE]
    /\ tasks = <<>>
    /\ queueMutex = Free
    /\ stop = FALSE
    /\ alive = TRUE
    /\ wsize = n
    /\ made = 0
    /\ throws = <<>>
    /\ fut = <<>>
    /\ taken = <<>>
    /\ ran = <<>>
    /\ accepted = {}
    /\ rejected = {}
    /\ dpc = "idle"
    /\ dj = 0
    /\ dcalls = 0

\* ------------------------------------------------ SpecPool: the pool alone
\* A pool of 1..MaxThreads workers, producer threads that enqueue tasks whose
\* bodies return or raise, and the owner that destroys the pool at any time.
\* No Tokenizer and no batch operation take part.
NoTokenizer ==
    /\ tokenToId = <<>>
    /\ idToToken = <<>>
    /\ unknownId = -1

NoCall ==
    /\ op = "none"
    /\ cpc = "none"
    /\ maxThreads = 0
    /\ requested = 0
    /\ logFile = ""
    /\ numThreads = 0
    /\ items = <<>>
    /\ ci = 0
    /\ chunks = <<>>
    /\ futures = <<>>
    /\ fres = <<>>
    /\ results = <<>>
    /\ ret = <<>>
    /\ logged = <<>>
    /\ reads = <<>>

InitPool ==
    /\ \E n \in 1..MaxThreads : PoolInit(n)
    /\ ppc = [p \in Producers |-> "idle"]
    /\ ptask = [p \in Producers |-> 0]
    /\ NoTokenizer
    /\ NoCall

WorkerStep ==
    \E w \in 1..MaxThreads :
        \/ WorkerLock(w) /\ UNCHANGED envVars
        \/ WorkerWait(w) /\ UNCHANGED envVars
        \/ WorkerSpuriousWake(w) /\ UNCHANGED envVars
        \/ WorkerExit(w) /\ UNCHANGED envVars
        \/ WorkerTake(w) /\ UNCHANGED envVars
        \/ WorkerRun(w) /\ UNCHANGED envVars

ProducerStep ==
    \E p \in Producers :
        \/ \E b \in BOOLEAN :
              made < MaxTasks /\ EnqueueLock(p, b) /\ UNCHANGED envVars
        \/ EnqueuePush(p) /\ UNCHANGED envVars
        \/ EnqueueNotify(p) /\ UNCHANGED envVars

DtorStep ==
    \/ DtorLock /\ UNCHANGED envVars
    \/ DtorSetStop /\ UNCHANGED envVars
    \/ DtorNotifyAll /\ UNCHANGED envVars
    \/ DtorJoin /\ UNCHANGED envVars
    \/ DtorReturn /\ UNCHANGED envVars

NextPool == WorkerStep \/ ProducerStep \/ DtorStep

SpecPool == InitPool /\ [][NextPool]_vars

\* ------------------------------------------------- properties of SpecPool
InQueue(t) == Cardinality({i \in 1..Len(tasks) : tasks[i] = t})
Holders(t) == {w \in Workers : wtask[w] = t}
Completed == {t \in TaskIds : ran[t] >= 1}

\* C2: every task accepted by enqueue is removed from the queue by exactly
\* one worker and its body is executed exactly once: at any moment an
\* accepted task is either queued once, or held by exactly one worker, or
\* has run exactly once; a task that was not accepted is nowhere; and when
\* the pool has been shut down every accepted task has run.
NoLostNoDuplicateTask ==
    /\ \A t \in TaskIds : taken[t] <= 1 /\ ran[t] <= 1
    /\ \A t \in accepted :
          \/ InQueue(t) = 1 /\ Holders(t) = {} /\ taken[t] = 0 /\ ran[t] = 0
          \/ InQueue(t) = 0 /\ Cardinality(Holders(t)) = 1 /\ taken[t] = 1 /\ ran[t] = 0
          \/ InQueue(t) = 0 /\ Holders(t) = {} /\ taken[t] = 1 /\ ran[t] = 1
    /\ \A t \in TaskIds \ accepted :
          InQueue(t) = 0 /\ Holders(t) = {} /\ taken[t] = 0 /\ ran[t] = 0
    /\ dpc = "done" => \A t \in accepted : ran[t] = 1

AllTasksRanOnceOnTwoWorkers ==
    /\ dpc = "done"
    /\ threads = MaxThreads
    /\ accepted = 1..MaxTasks
    /\ \A t \in accepted : ran[t] = 1

\* C3: once the stop flag is set, an enqueue that reaches its check fails:
\* the task is recorded as rejected and the queue and the set of accepted
\* tasks are unchanged, also while the destructor is still joining; a
\* rejected task is never queued or run; the tasks accepted before the flag
\* was set have all run when the destructor returns.
EnqueueAfterStopRejected ==
    /\ [](/\ \A t \in rejected :
                InQueue(t) = 0 /\ taken[t] = 0 /\ ran[t] = 0 /\ t \notin accepted
          /\ dpc = "done" => \A t \in accepted : ran[t] = 1 /\ fut[t] # "pending")
    /\ [][\A p \in Producers :
            (stop /\ ppc[p] = "locked" /\ ppc'[p] # "locked") =>
                /\ tasks' = tasks
                /\ accepted' = accepted
                /\ ptask[p] \in rejected'
                /\ ppc'[p] = "idle"]_vars

EnqueueRejectedDuringJoin ==
    /\ dpc = "join"
    /\ rejected # {}
    /\ \E t \in accepted : ran[t] = 0

\* C4: the destructor returns only after the queue is empty, every accepted
\* task has run to completion (its future is set), and all workers have
\* returned from their thread function.
ShutdownReturnsAfterDrainAndJoin ==
    dpc = "done" =>
        /\ tasks = <<>>
        /\ \A t \in accepted : ran[t] = 1 /\ fut[t] # "pending"
        /\ \A w \in Workers : wpc[w] = "done" /\ wtask[w] = 0 /\ ~joinable[w]

ShutdownReturnedWithWork ==
    /\ dpc = "done"
    /\ threads = MaxThreads
    /\ Cardinality(accepted) >= 2

\* C7: a task whose body raises does not end its worker or the pool: the
\* outcome of every executed task (the error of a raising body, the value of
\* any other) is in that task's own future, a worker has returned only if
\* stop was set, no worker was ended by an escaping exception, and at
\* shutdown every accepted task has run.
TaskErrorIsolated ==
    /\ \A t \in TaskIds :
          fut[t] = (IF ran[t] >= 1 THEN Outcome(t) ELSE "pending")
    /\ \A w \in Workers :
          /\ wpc[w] # "terminated"
          /\ wpc[w] = "done" => stop
    /\ dpc = "done" => \A t \in accepted : ran[t] = 1

WorkerRanTaskAfterRaisingTask ==
    /\ threads = 1
    /\ \E t1, t2 \in accepted :
          /\ t1 < t2
          /\ throws[t1] /\ fut[t1] = "error"
          /\ ~throws[t2] /\ fut[t2] = "value"
          /\ ~stop


\* C18: the queue is FIFO: the tasks are numbered in the order in which
\* their enqueue took queueMutex; the queue holds them in that order, and
\* whenever a task has been removed from the queue by a worker, every task
\* accepted before it has been removed too.
QueueIsFifo ==
    /\ \A i, j \in 1..Len(tasks) : i < j => tasks[i] < tasks[j]
    /\ \A t1, t2 \in accepted :
          (t1 < t2 /\ taken[t2] >= 1) => taken[t1] >= 1

TwoProducersTasksTakenInOrder ==
    /\ threads = MaxThreads
    /\ accepted = {1, 2, 3}
    /\ \E p, q \in Producers : p # q /\ ptask[p] = 3 /\ ptask[q] = 2
    /\ taken = <<1, 1, 0>>
    /\ tasks = <<3>>
    /\ \A w \in Workers : wpc[w] = "run"

\* C19: enqueue never waits for the load of the pool: queueMutex, the one
\* thing enqueue waits for, is never held by a worker that runs a task or
\* waits for one, its holder can always take its next step and release it,
\* a producer that holds it can always push, whatever the length of the
\* queue, and an enqueue is rejected only when stop is set.
EnqueueNeverWaitsForLoad ==
    /\ \A w \in Workers :
          queueMutex = w =>
              /\ wpc[w] = "locked"
              /\ wtask[w] = 0
              /\ ENABLED (WorkerWait(w) \/ WorkerExit(w) \/ WorkerTake(w))
    /\ queueMutex = Main => dpc = "locked" /\ ENABLED DtorSetStop
    /\ \A p \in Producers :
          /\ queueMutex = p => ppc[p] = "locked"
          /\ ppc[p] = "locked" => queueMutex = p /\ ENABLED EnqueuePush(p)
          /\ ppc[p] = "notify" =>
                ptask[p] \in accepted /\ ENABLED EnqueueNotify(p)
    /\ rejected # {} => stop

EnqueueAcceptedWhileAllWorkersBusy ==
    /\ ~stop
    /\ threads = MaxThreads
    /\ \A w \in Workers : wpc[w] = "run"
    /\ Len(tasks) >= 1
    /\ \E p \in Producers :
          ppc[p] = "notify" /\ ptask[p] = tasks[Len(tasks)]

\* C23: a worker that runs a task body does not hold queueMutex: it holds
\* the mutex only from taking it to blocking in the wait, returning, or
\* having removed one task; so while bodies run, the mutex being free, any
\* worker at the top of its loop can take it and dequeue and any producer
\* can start an enqueue, and as many bodies as there are workers can run at
\* the same time.
TaskBodyRunsOutsideLock ==
    /\ \A w \in Workers :
          /\ wpc[w] = "run" =>
                /\ queueMutex # w
                /\ wtask[w] \in accepted
                /\ \A v \in Workers : (v # w /\ wpc[v] = "run") => wtask[v] # wtask[w]
          /\ wpc[w] \in {"lock", "waiting", "done"} => queueMutex # w
    /\ ((\E w \in Workers : wpc[w] = "run") /\ queueMutex = Free) =>
          /\ \A v \in Workers : wpc[v] = "lock" => ENABLED WorkerLock(v)
          /\ \A p \in Producers :
                (ppc[p] = "idle" /\ alive) => ENABLED EnqueueLock(p, FALSE)

AllWorkersRunTaskBodies ==
    /\ threads = MaxThreads
    /\ \A w \in Workers : wpc[w] = "run"
    /\ Cardinality({wtask[w] : w \in Workers}) = MaxThreads
    /\ queueMutex = Free

\* ------------------------------- SpecHandle: the future enqueue returns
\* The pool of SpecPool with one producer thread that also calls get() on
\* the futures it was given, up to MaxReads times each.
MaxReads == 2

\* ThreadPool.h:43,49,56  enqueue returns std::future<return_type>.  get()
\* blocks until the task has run, yields the stored value or rethrows the
\* stored exception, and leaves the future without shared state (valid() is
\* false).  get() on such a future is undefined: the library throws
\* future_error(no_state) or dereferences the missing state.
FutureGet(t) ==
    /\ t \in accepted
    /\ \A p \in DOMAIN ppc : ptask[p] = t => ppc[p] = "idle"
    /\ fut[t] # "pending"
    /\ IF t \notin DOMAIN reads
         THEN reads' = reads @@ (t :> <<fut[t]>>)
         ELSE /\ Len(reads[t]) < MaxReads
              /\ \E o \in {"future_error", "crash"} :
                    reads' = [reads EXCEPT ![t] = Append(@, o)]
    /\ UNCHANGED <<poolVars, taskVars, prodVars, dtorVars, tokVars, callVars,
                   logged>>

HandleProducerStep ==
    \/ \E b \in BOOLEAN :
          made < MaxTasks /\ EnqueueLock(101, b) /\ UNCHANGED envVars
    \/ EnqueuePush(101) /\ UNCHANGED envVars
    \/ EnqueueNotify(101) /\ UNCHANGED envVars

HandleStep == \E t \in 1..MaxTasks : FutureGet(t)

NextHandle == WorkerStep \/ HandleProducerStep \/ DtorStep \/ HandleStep

SpecHandle == InitPool /\ [][NextHandle]_vars

\* C17: the future of a task is written once, by that task, and every
\* get() on it yields the same outcome: the value, or the error, the task
\* stored.
HandleWrittenOnceReadManyTimes ==
    /\ \A t \in TaskIds :
          /\ ran[t] <= 1
          /\ fut[t] = (IF ran[t] >= 1 THEN Outcome(t) ELSE "pending")
    /\ \A t \in DOMAIN reads :
          \A i \in 1..Len(reads[t]) : reads[t][i] = fut[t]

\* the second get() on the future of a task that returned a value
HandleReadTwice ==
    \E t \in DOMAIN reads :
        /\ Len(reads[t]) = 2
        /\ reads[t][1] = "value"
        /\ reads[t][2] = "future_error"

\* ---------------------------------------------------------------- Tokenizer
Min(a, b) == IF a < b THEN a ELSE b
Range(f) == {f[i] : i \in DOMAIN f}
MaxOf(S) == CHOOSE x \in S : \A y \in S : y <= x
MinOf(S) == CHOOSE x \in S : \A y \in S : x <= y

\* main.cpp:16  the vocabulary of the test program, and one without "<UNK>"
VocabLists ==
    { <<"hello", "world", "<UNK>", "my", "name", "is", "<UNK>", "My">>,
      <<"hello", "world">> }

\* Tokenizer.cpp:7,20-22  vocab / idToToken after the constructor
IdToTokenOf(vocabList) ==
    IF "<UNK>" \in Range(vocabList) THEN vocabList
                                     ELSE Append(vocabList, "<UNK>")

\* Tokenizer.cpp:17-19,24  tokenToId[vocab[i]] = i: the last index wins
TokenToIdOf(vocabList) ==
    LET v == IdToTokenOf(vocabList) IN
    [tok \in Range(v) |-> MaxOf({i \in 1..Len(v) : v[i] = tok}) - 1]

\* Tokenizer.cpp:23,27
UnknownIdOf(vocabList) == TokenToIdOf(vocabList)["<UNK>"]

\* Tokenizer.cpp:7-29  Tokenizer::Tokenizer
TokenizerInit(vocabList) ==
    /\ tokenToId = TokenToIdOf(vocabList)
    /\ idToToken = IdToTokenOf(vocabList)
    /\ unknownId = UnknownIdOf(vocabList)

\* Tokenizer.cpp:42-53  Tokenizer::encode
Encode(toks) ==
    [i \in 1..Len(toks) |->
        IF toks[i] \in DOMAIN tokenToId THEN tokenToId[toks[i]] ELSE unknownId]

\* Tokenizer.cpp:67-78  Tokenizer::decode (when it does not throw)
Decode(ids) == [i \in 1..Len(ids) |-> idToToken[ids[i] + 1]]

\* ------------------------------------------------------------------ export
\* Toolkit.h:20-39  the destination a call is given: the default, or none
LogFiles == {"", "Outputs.txt"}

WriteToFileAlways(log, taskName, output, fileName) ==
    {log, Append(log, [file |-> fileName, task |-> taskName, data |-> output])}

\* Toolkit.cpp:37-101  writeToFile: nothing for an empty fileName, nothing
\* if the file cannot be opened, else the output is appended to the file
WriteToFile(log, taskName, output, fileName) ==
    IF fileName = ""
      THEN {log}
      ELSE {log, Append(log, [file |-> fileName, task |-> taskName, data |-> output])}

\* ------------------------------------------------------------- partitioning
\* A chunk is the record of the range [start, end) the code computed for it
\* and of the items it holds or processes (part).
Items(seq, start, end) == SubSeq(seq, start + 1, end)
Chunk(seq, start, end) ==
    [start |-> start, end |-> end, part |-> Items(seq, start, end)]

RECURSIVE SplitLoopRemainderLast(_, _, _, _, _)
SplitLoopRemainderLast(tokens, numParts, i, start, result) ==
    IF i >= numParts THEN result
    ELSE LET blockSize == Len(tokens) \div numParts
             remainder == Len(tokens) % numParts
             end == start + blockSize + (IF i = numParts - 1 THEN remainder ELSE 0)
         IN  SplitLoopRemainderLast(tokens, numParts, i + 1, end,
                           Append(result, Chunk(tokens, start, end)))

\* Toolkit.cpp:115-122  the loop of splitTokens
RECURSIVE SplitLoop(_, _, _, _, _)
SplitLoop(tokens, numParts, i, start, result) ==
    IF i >= numParts THEN result
    ELSE LET blockSize == Len(tokens) \div numParts
             remainder == Len(tokens) % numParts
             end == start + blockSize + (IF i < remainder THEN 1 ELSE 0)
         IN  SplitLoop(tokens, numParts, i + 1, end,
                       Append(result, Chunk(tokens, start, end)))

\* Toolkit.cpp:103-125  splitTokens(tokens, numParts)
SplitTokens(tokens, numParts) == SplitLoop(tokens, numParts, 0, 0, <<>>)

\* Tokenizer.cpp:100  blockSize = (numSentences + numThreads - 1) / numThreads
BlockSize(n, nThreads) == (n + nThreads - 1) \div nThreads

BlockChunkFloor(sentences, nThreads, t) ==
    LET blockSize == Len(sentences) \div nThreads
        start == t * blockSize
        end == Min(start + blockSize, Len(sentences))
    IN  Chunk(sentences, start, end)

\* Tokenizer.cpp:106-107,112  start, end and the sentences the task loops over
BlockChunk(sentences, nThreads, t) ==
    LET blockSize == BlockSize(Len(sentences), nThreads)
        start == t * blockSize
        end == Min(start + blockSize, Len(sentences))
    IN  Chunk(sentences, start, end)

\* Toolkit.cpp:405-409  chunkSize, start, end and text.substr(start, end - start)
SubstrChunk(text, nThreads, i) ==
    LET chunkSize == Len(text) \div nThreads
        start == i * chunkSize
        end == IF i = nThreads - 1 THEN Len(text) ELSE (i + 1) * chunkSize
    IN  Chunk(text, start, end)

\* ------------------------------------------- SpecChunk: the partitions alone
MaxItems == 11           \* longest input that is partitioned
MaxParts == 4            \* largest number of chunks

\* main.cpp:15  the tokens of the test program (repeated beyond the 11th)
MainTokens == <<"hello", "world", "hello", "my", "name", "is", "My", "what",
                "is", "your", "name">>
TokensOf(n) == [i \in 1..n |-> MainTokens[((i - 1) % Len(MainTokens)) + 1]]

\* ThreadPool.h:12-16  no pool has been constructed
NoPool ==
    /\ threads = 0
    /\ wpc = <<>>
    /\ wtask = <<>>
    /\ joinable = <<>>
    /\ tasks = <<>>
    /\ queueMutex = Free
    /\ stop = FALSE
    /\ alive = FALSE
    /\ wsize = 0
    /\ made = 0
    /\ throws = <<>>
    /\ fut = <<>>
    /\ taken = <<>>
    /\ ran = <<>>
    /\ accepted = {}
    /\ rejected = {}
    /\ dpc = "none"
    /\ dj = 0
    /\ dcalls = 0
    /\ ppc = [p \in {Main} |-> "idle"]
    /\ ptask = [p \in {Main} |-> 0]

InitChunk ==
    /\ NoPool
    /\ NoTokenizer
    /\ op = "none"
    /\ cpc = "start"
    /\ maxThreads = 0
    /\ requested = 0
    /\ logFile = ""
    /\ \E n \in 0..MaxItems : items = TokensOf(n)
    /\ numThreads \in 1..MaxParts
    /\ ci = 0
    /\ chunks = <<>>
    /\ futures = <<>>
    /\ fres = <<>>
    /\ results = <<>>
    /\ ret = <<>>
    /\ logged = <<>>
    /\ reads = <<>>

Partitioned(name, parts) ==
    /\ cpc = "start"
    /\ op' = name
    /\ chunks' = parts
    /\ cpc' = "done"
    /\ UNCHANGED <<maxThreads, requested, logFile, numThreads, items, ci, futures, fres,
                   results, ret>>
    /\ UNCHANGED <<poolVars, taskVars, prodVars, dtorVars, tokVars, obsVars>>

\* Toolkit.cpp:187  splitBlocks = splitTokens(tokens, numThreads)
ApplySplitTokens ==
    Partitioned("splitTokens", SplitTokens(items, numThreads))

\* Tokenizer.cpp:105-107  the ranges of the numThreads tasks of batchEncode
ApplyBlockRanges ==
    Partitioned("blockRanges",
                [t \in 1..numThreads |-> BlockChunk(items, numThreads, t - 1)])

\* Toolkit.cpp:406-410  the numThreads pieces of removeSpecialCharacters
ApplySubstrRanges ==
    Partitioned("substrRanges",
                [i \in 1..numThreads |-> SubstrChunk(items, numThreads, i - 1)])

NextChunk == ApplySplitTokens \/ ApplyBlockRanges \/ ApplySubstrRanges

SpecChunk == InitChunk /\ [][NextChunk]_vars

\* ------------------------------------------------ properties of SpecChunk
Sizes(parts) == [i \in 1..Len(parts) |-> Len(parts[i].part)]

\* C8: the chunks of every batch operation are ranges with start <= end, in
\* increasing order, that cover [0, N) exactly once: the first starts at 0,
\* each starts where the one before ended, the last ends at N, and each
\* holds exactly the items of its range.
ChunksAreOrderedExactCover ==
    cpc = "done" =>
        /\ Len(chunks) = numThreads
        /\ \A i \in 1..Len(chunks) :
              /\ chunks[i].start <= chunks[i].end
              /\ chunks[i].part = Items(items, chunks[i].start, chunks[i].end)
        /\ chunks[1].start = 0
        /\ \A i \in 1..(Len(chunks) - 1) : chunks[i].end = chunks[i + 1].start
        /\ chunks[Len(chunks)].end = Len(items)

\* batchEncode on one sentence with three threads: blockSize is 1, and the
\* third block is the range start = 2, end = min(3, 1) = 1.
BlockRangeStartsPastEnd ==
    /\ cpc = "done"
    /\ op = "blockRanges"
    /\ \E i \in 1..Len(chunks) : chunks[i].start > chunks[i].end

\* C9: in every batch operation the sizes of the chunks differ by at most 1.
ChunkSizesDifferByAtMostOne ==
    cpc = "done" =>
        MaxOf(Range(Sizes(chunks))) - MinOf(Range(Sizes(chunks))) <= 1

\* removeSpecialCharacters gives the whole remainder to the last chunk, and
\* the ceiling blocks of batchEncode leave the last blocks short or empty.
ChunkSizesDifferByTwo ==
    /\ cpc = "done"
    /\ op \in {"blockRanges", "substrRanges"}
    /\ MaxOf(Range(Sizes(chunks))) - MinOf(Range(Sizes(chunks))) >= 2

\* C10: splitTokens puts the remainder first: chunk i (from 0) holds the
\* floor(N/T) + (1 if i < N mod T) consecutive tokens that start where chunk
\* i-1 ended, that is at offset i*floor(N/T) + min(i, N mod T).
SplitTokensRemainderFirst ==
    (cpc = "done" /\ op = "splitTokens") =>
        /\ Len(chunks) = numThreads
        /\ \A i \in 0..(numThreads - 1) :
              LET base == Len(items) \div numThreads
                  rem == Len(items) % numThreads
                  size == base + (IF i < rem THEN 1 ELSE 0)
                  offset == i * base + Min(i, rem)
              IN  chunks[i + 1].part =
                      [k \in 1..size |-> items[offset + k]]

ElevenTokensInFourChunks ==
    /\ cpc = "done"
    /\ op = "splitTokens"
    /\ items = MainTokens
    /\ numThreads = 4
    /\ Sizes(chunks) = <<3, 3, 3, 2>>


\* ------------------------------ SpecTokenizer: batchEncode and batchDecode
MaxBatch == 3            \* longest batch of sentences

\* sentences of the kind main.cpp:124-131 encodes (repeated beyond the 4th)
BaseSentences == << <<"hello", "world">>, <<"what", "is">>, <<>>,
                    <<"<UNK>", "My", "name">> >>
SentenceAt(i) == BaseSentences[((i - 1) % Len(BaseSentences)) + 1]

\* id sequences valid in every vocabulary of VocabLists, and one that holds
\* an id no vocabulary has
BaseIds == << <<0, 1>>, <<2>>, <<>>, <<1, 0, 2>> >>
IdsAt(i) == BaseIds[((i - 1) % Len(BaseIds)) + 1]
BadIds == <<1, 8>>

EncodeBatches == {[i \in 1..n |-> SentenceAt(i)] : n \in 0..MaxBatch}
DecodeBatches ==
    UNION {{[i \in 1..n |-> IF i \in bad THEN BadIds ELSE IdsAt(i)] :
               bad \in SUBSET (1..n)} : n \in 0..MaxBatch}

\* the normalisation without the test numThreads <= 0
NormaliseUpperOnly(nThreads, hw) ==
    IF nThreads > hw THEN hw ELSE nThreads

\* Tokenizer.cpp:94-98 (Toolkit.cpp:181-184)  numThreads after normalisation
Normalise(nThreads, hw) ==
    IF nThreads <= 0 \/ nThreads > hw THEN hw ELSE nThreads

\* ThreadPool.cpp:3,23-45  ThreadPool pool(n): the constructor
ConstructPool(n) ==
    /\ threads' = n
    /\ wpc' = [w \in 1..n |-> "lock"]
    /\ wtask' = [w \in 1..n |-> 0]
    /\ joinable' = [w \in 1..n |-> TRUE]
    /\ tasks' = <<>>
    /\ queueMutex' = Free
    /\ stop' = FALSE
    /\ alive' = TRUE
    /\ wsize' = n

\* a call of batchEncode or batchDecode on a host whose
\* hardware_concurrency() is one of hws
InitCall(hws) ==
    /\ NoPool
    /\ \E v \in VocabLists : TokenizerInit(v)
    /\ \/ op = "batchEncode" /\ items \in EncodeBatches
       \/ op = "batchDecode" /\ items \in DecodeBatches
    /\ cpc = "start"
    /\ maxThreads \in hws
    /\ requested \in -1..(MaxThreads + 1)
    /\ logFile \in LogFiles
    /\ numThreads = requested
    /\ ci = 0
    /\ chunks = <<>>
    /\ futures = <<>>
    /\ fres = <<>>
    /\ results = <<>>
    /\ ret = <<>>
    /\ logged = <<>>
    /\ reads = <<>>

\* a host that reports between 1 and MaxThreads hardware threads
InitTokenizer == InitCall(1..MaxThreads)

\* Tokenizer.cpp:93-103 (141-151)  normalise numThreads, construct the pool;
\* with numThreads 0 the division of line 100 (148) comes first
BatchBegin ==
    /\ cpc = "start"
    /\ numThreads' = Normalise(requested, maxThreads)
    /\ IF numThreads' = 0
         THEN cpc' = "divide" /\ UNCHANGED poolVars
         ELSE ConstructPool(numThreads') /\ cpc' = "enqueue"
    /\ UNCHANGED <<op, maxThreads, requested, logFile, items, ci, chunks, futures, fres,
                   results, ret>>
    /\ UNCHANGED <<taskVars, prodVars, dtorVars, tokVars, obsVars>>

\* Tokenizer.cpp:105-110 (153-158)  start and end of task ci; enqueue begins
BatchEnqueueLock ==
    /\ cpc = "enqueue"
    /\ ci < numThreads
    /\ EnqueueLock(Main, FALSE)
    /\ chunks' = Append(chunks, BlockChunk(items, numThreads, ci))
    /\ UNCHANGED <<op, cpc, maxThreads, requested, logFile, numThreads, items, ci,
                   futures, fres, results, ret>>
    /\ UNCHANGED <<tokVars, obsVars>>

\* ThreadPool.h:52-54 inside that call
BatchEnqueuePush ==
    /\ cpc = "enqueue"
    /\ EnqueuePush(Main)
    /\ UNCHANGED envVars

\* ThreadPool.h:55-56 and Tokenizer.cpp:110 (158) futures.push_back(...); ++t
BatchEnqueueNotify ==
    /\ cpc = "enqueue"
    /\ futures' = Append(futures, ptask[Main])
    /\ EnqueueNotify(Main)
    /\ ci' = IF ci + 1 < numThreads THEN ci + 1 ELSE 0
    /\ cpc' = IF ci + 1 < numThreads THEN "enqueue" ELSE "get"
    /\ UNCHANGED <<op, maxThreads, requested, logFile, numThreads, items, chunks, fres,
                   results, ret>>
    /\ UNCHANGED <<tokVars, obsVars>>

\* Tokenizer.cpp:111-115 (159-163)  the value the block task returns
BlockResult(t) ==
    [k \in 1..Len(chunks[t].part) |->
        IF op = "batchEncode" THEN Encode(chunks[t].part[k])
                              ELSE Decode(chunks[t].part[k])]

\* Tokenizer.cpp:111-113 (159-161)  the sentences of block t that encode or
\* decode finished: all of them, or those before the first decode that throws
SentencesDone(t) ==
    IF BodyThrows(t)
      THEN MinOf({k \in 1..Len(chunks[t].part) :
                     DecodeThrows(chunks[t].part[k])}) - 1
      ELSE Len(chunks[t].part)

\* Tokenizer.cpp:113,52 (161,77)  this->encode(sentences[i], "") and
\* this->decode(encodedSentences[i], ""): the writeToFile call that ends
\* each of the first k sentences of block t
RECURSIVE BlockWrites(_, _, _)
BlockWrites(log, t, k) ==
    IF k = 0
      THEN {log}
      ELSE UNION {WriteToFile(l,
                              IF op = "batchEncode" THEN "Encode" ELSE "Decode",
                              IF op = "batchEncode"
                                THEN Encode(chunks[t].part[k])
                                ELSE Decode(chunks[t].part[k]),
                              "") : l \in BlockWrites(log, t, k - 1)}

\* Tokenizer.cpp:45  tokenToId[token]: unordered_map::operator[] adds a
\* value-initialised entry for a key the map does not hold
Subscript(map, token) ==
    IF token \in DOMAIN map THEN map ELSE map @@ (token :> 0)

EncodeLookupNoFind(map, token) == Subscript(map, token)

\* Tokenizer.cpp:44-49  one iteration of encode's loop, as it leaves the
\* map: operator[] is reached only for a key that find has found
EncodeLookup(map, token) ==
    IF token \in DOMAIN map THEN Subscript(map, token) ELSE map

\* Tokenizer.cpp:43-50  the loop of encode over the first k tokens
RECURSIVE EncodeLookups(_, _, _)
EncodeLookups(map, toks, k) ==
    IF k = 0
      THEN map
      ELSE EncodeLookup(EncodeLookups(map, toks, k - 1), toks[k])

\* Tokenizer.cpp:112-114  the loop of a block task over its first k sentences
RECURSIVE BlockLookups(_, _, _)
BlockLookups(map, part, k) ==
    IF k = 0
      THEN map
      ELSE EncodeLookups(BlockLookups(map, part, k - 1), part[k], Len(part[k]))

\* ThreadPool.cpp:42 running a block task: its value goes into its future.
\* decode reads idToToken (Tokenizer.cpp:69-70), encode reads unknownId and
\* goes through tokenToId (Tokenizer.cpp:44-48).
BatchWorkerRun(w) ==
    /\ WorkerRun(w)
    /\ fres' = IF fut[wtask[w]] = "pending" /\ ~BodyThrows(wtask[w])
                 THEN fres @@ (wtask[w] :> BlockResult(wtask[w]))
                 ELSE fres
    /\ logged' \in BlockWrites(logged, wtask[w], SentencesDone(wtask[w]))
    /\ tokenToId' = IF op = "batchEncode"
                      THEN BlockLookups(tokenToId, chunks[wtask[w]].part,
                                        Len(chunks[wtask[w]].part))
                      ELSE tokenToId
    /\ UNCHANGED <<op, cpc, maxThreads, requested, logFile, numThreads, items, ci,
                   chunks, futures, results, ret>>
    /\ UNCHANGED <<idToToken, unknownId, reads>>

BatchGetNoUnwind ==
    /\ cpc = "get"
    /\ ci < Len(futures)
    /\ fut[futures[ci + 1]] # "pending"
    /\ IF fut[futures[ci + 1]] = "error"
         THEN /\ cpc' = "thrown"
              /\ results' = <<>>
              /\ ret' = [kind |-> "error", from |-> futures[ci + 1],
                          what |-> "Invalid token ID in decode."]
              /\ UNCHANGED <<ci, dpc, logged>>
         ELSE /\ results' = results \o fres[futures[ci + 1]]
              /\ ci' = ci + 1
              /\ cpc' = IF ci + 1 < Len(futures) THEN "get" ELSE "leave"
              /\ dpc' = IF ci + 1 < Len(futures) THEN dpc ELSE "idle"
              /\ ret' = IF ci + 1 < Len(futures)
                          THEN ret ELSE [kind |-> "value", val |-> results']
              /\ logged' \in IF ci + 1 < Len(futures)
                               THEN {logged}
                               ELSE WriteToFile(logged, op, results', logFile)
    /\ UNCHANGED <<op, maxThreads, requested, logFile, numThreads, items, chunks,
                   futures, fres>>
    /\ UNCHANGED <<poolVars, taskVars, prodVars, dj, dcalls, tokVars, reads>>

\* the loop with the error of a block caught and the block skipped
BatchGetSkipFailed ==
    /\ cpc = "get"
    /\ ci < Len(futures)
    /\ fut[futures[ci + 1]] # "pending"
    /\ results' = IF fut[futures[ci + 1]] = "error"
                     THEN results ELSE results \o fres[futures[ci + 1]]
    /\ ci' = ci + 1
    /\ cpc' = IF ci + 1 < Len(futures) THEN "get" ELSE "leave"
    /\ dpc' = IF ci + 1 < Len(futures) THEN dpc ELSE "idle"
    /\ ret' = IF ci + 1 < Len(futures)
                THEN ret ELSE [kind |-> "value", val |-> results']
    /\ logged' \in IF ci + 1 < Len(futures)
                     THEN {logged}
                     ELSE WriteToFile(logged, op, results', logFile)
    /\ UNCHANGED <<op, maxThreads, requested, logFile, numThreads, items, chunks,
                   futures, fres>>
    /\ UNCHANGED <<poolVars, taskVars, prodVars, dj, dcalls, tokVars, reads>>

\* Tokenizer.cpp:119-126 (167-174)  future.get() blocks until the task has
\* run; an error is rethrown and unwinds the scope; a value is appended to
\* results.  After the last future: writeToFile, the return value is made
\* and the locals are destroyed, pool last (it was declared first).
BatchGet ==
    /\ cpc = "get"
    /\ ci < Len(futures)
    /\ fut[futures[ci + 1]] # "pending"
    /\ IF fut[futures[ci + 1]] = "error"
         THEN /\ cpc' = "unwind"
              /\ dpc' = "idle"
              /\ results' = <<>>
              /\ ret' = [kind |-> "error", from |-> futures[ci + 1],
                          what |-> "Invalid token ID in decode."]
              /\ UNCHANGED <<ci, logged>>
         ELSE /\ results' = results \o fres[futures[ci + 1]]
              /\ ci' = ci + 1
              /\ cpc' = IF ci + 1 < Len(futures) THEN "get" ELSE "leave"
              /\ dpc' = IF ci + 1 < Len(futures) THEN dpc ELSE "idle"
              /\ ret' = IF ci + 1 < Len(futures)
                          THEN ret ELSE [kind |-> "value", val |-> results']
              /\ logged' \in IF ci + 1 < Len(futures)
                               THEN {logged}
                               ELSE WriteToFile(logged, op, results', logFile)
    /\ UNCHANGED <<op, maxThreads, requested, logFile, numThreads, items, chunks,
                   futures, fres>>
    /\ UNCHANGED <<poolVars, taskVars, prodVars, dj, dcalls, tokVars, reads>>

\* Tokenizer.cpp:127 (175)  ~ThreadPool has returned: the call returns, or
\* the rethrown error leaves it
BatchLeave ==
    /\ cpc \in {"leave", "unwind"}
    /\ dpc = "done"
    /\ cpc' = IF cpc = "leave" THEN "returned" ELSE "thrown"
    /\ UNCHANGED <<op, maxThreads, requested, logFile, numThreads, items, ci, chunks,
                   futures, fres, results, ret>>
    /\ UNCHANGED <<poolVars, taskVars, prodVars, dtorVars, tokVars, obsVars>>

TokenizerWorkerStep ==
    \E w \in 1..MaxThreads :
        \/ WorkerLock(w) /\ UNCHANGED envVars
        \/ WorkerWait(w) /\ UNCHANGED envVars
        \/ WorkerSpuriousWake(w) /\ UNCHANGED envVars
        \/ WorkerExit(w) /\ UNCHANGED envVars
        \/ WorkerTake(w) /\ UNCHANGED envVars
        \/ BatchWorkerRun(w)

NextTokenizer ==
    \/ BatchBegin
    \/ BatchEnqueueLock
    \/ BatchEnqueuePush
    \/ BatchEnqueueNotify
    \/ BatchGet
    \/ BatchLeave
    \/ TokenizerWorkerStep
    \/ DtorStep

SpecTokenizer == InitTokenizer /\ [][NextTokenizer]_vars


\* -------------------------------------------- properties of SpecTokenizer
PerSentence(sentence) ==
    IF op = "batchEncode" THEN Encode(sentence) ELSE Decode(sentence)
SomeSentenceThrows ==
    op = "batchDecode" /\ \E i \in 1..Len(items) : DecodeThrows(items[i])

\* C1: batchEncode and batchDecode return a sequence as long as the batch
\* whose i-th element is encode / decode of the i-th sentence, for every
\* batch, thread count and interleaving of the block tasks; the call ends
\* with an error only when decode of some sentence of the batch throws (as
\* the serial loop would), and then it returns nothing.
BatchEqualsSerial ==
    /\ cpc = "returned" =>
          /\ ~SomeSentenceThrows
          /\ ret.kind = "value"
          /\ Len(ret.val) = Len(items)
          /\ \A i \in 1..Len(items) : ret.val[i] = PerSentence(items[i])
    /\ cpc = "thrown" => SomeSentenceThrows /\ ret.kind = "error"

FullBatchReturnedFromTwoBlocks ==
    /\ cpc = "returned"
    /\ Len(items) = MaxBatch
    /\ numThreads = MaxThreads
    /\ Len(ret.val) = MaxBatch

\* C6: after a batch call has returned or thrown, the pool it created has
\* been shut down and joined: stop is set and every worker thread has
\* returned and has been joined.
PoolJoinedWhenBatchCallLeft ==
    cpc \in {"returned", "thrown"} =>
        /\ threads >= 1
        /\ stop
        /\ \A w \in Workers : wpc[w] = "done" /\ ~joinable[w]

BatchDecodeThrewWithTwoWorkers ==
    /\ cpc = "thrown"
    /\ op = "batchDecode"
    /\ threads = MaxThreads
    /\ \A w \in Workers : wpc[w] = "done"

\* C14: when decode raises for some sentence of the batch, the call ends with
\* the error: it never reaches its return, what it had collected from the
\* blocks that succeeded is gone, and writeToFile has not been called.
FailedBatchReturnsNothing ==
    SomeSentenceThrows =>
        /\ cpc \notin {"leave", "returned"}
        /\ logged = <<>>
        /\ cpc \in {"unwind", "thrown"} =>
              /\ ret.kind = "error"
              /\ results = <<>>

BatchThrewAfterOneBlockSucceeded ==
    /\ cpc = "thrown"
    /\ ret.kind = "error"
    /\ logged = <<>>
    /\ \E t \in accepted : fut[t] = "value" /\ fres[t] # <<>>

\* C15: when a batch call has ended with an error, every task it dispatched
\* has finished: none is still in the queue, none is in the hands of a
\* worker, and each has run and set its future.
FailedBatchLeavesNoTaskBehind ==
    cpc = "thrown" =>
        /\ accepted = 1..numThreads
        /\ tasks = <<>>
        /\ \A w \in Workers : wtask[w] = 0 /\ wpc[w] = "done"
        /\ \A t \in accepted : ran[t] = 1 /\ fut[t] # "pending"

FirstBlockFailedSecondBlockFinished ==
    /\ cpc = "thrown"
    /\ threads = 2
    /\ ret.from = 1
    /\ ran = <<1, 1>>
    /\ fut[2] = "value"

\* The blocks whose task raised, and the blocks the error delivered to the
\* caller can be traced to: the exception object future.get() rethrew is
\* the one stored by a single block task (Tokenizer.cpp:169).
FailingBlocks == {t \in accepted : fut[t] = "error"}
BlocksNamedBy(err) == {err.from}

\* C16: the error that ends a failed batch call identifies every block that
\* failed.
BatchErrorNamesEveryFailingBlock ==
    cpc = "thrown" => BlocksNamedBy(ret) = FailingBlocks

\* batchDecode with an invalid id in both blocks: the caller receives the
\* exception of block 1 only.
TwoBlocksFailedOneReported ==
    /\ cpc = "thrown"
    /\ FailingBlocks = {1, 2}
    /\ ret.from = 1
    /\ ret.what = "Invalid token ID in decode."

\* C20: a requested thread count <= 0 is not an error: the call uses
\* hardware_concurrency() threads in its place, ends with an error only if
\* decode raises for a sentence, and otherwise returns the per-sentence
\* results in input order, as it does for every positive thread count.
NonPositiveThreadCountNormalised ==
    requested <= 0 =>
        /\ cpc # "start" =>
              numThreads = maxThreads /\ threads = maxThreads
        /\ cpc = "thrown" => SomeSentenceThrows
        /\ cpc = "returned" =>
              /\ ret.kind = "value"
              /\ ret.val = [i \in 1..Len(items) |-> PerSentence(items[i])]

NegativeThreadCountReturnedOnAllThreads ==
    /\ requested = -1
    /\ cpc = "returned"
    /\ maxThreads = MaxThreads
    /\ threads = MaxThreads
    /\ Len(items) = MaxBatch
    /\ Len(ret.val) = MaxBatch

\* C11: a batch call on N items with T threads (T after the substitution of
\* the host's parallelism) dispatches min(T, N) tasks when N > 0 and none
\* when N = 0, and no dispatched chunk is empty.
ChunkCountClamped ==
    cpc \in {"returned", "thrown"} =>
        /\ made = (IF Len(items) = 0 THEN 0
                   ELSE Min(Normalise(requested, maxThreads), Len(items)))
        /\ \A t \in 1..Len(chunks) : chunks[t].part # <<>>

\* batchEncode of one sentence with two threads: two tasks, the second for
\* the empty block [1, 1).
EmptyBlockDispatched ==
    /\ cpc = "returned"
    /\ Len(items) = 1
    /\ made = 2
    /\ accepted = {1, 2}
    /\ chunks[2].part = <<>>
    /\ ran[2] = 1

\* ------------------------ SpecToolkit: getBagOfWords and getEmbeddings
\* Toolkit.cpp:193-195  results[i][token]++ for the tokens of one block
RECURSIVE CountLoop(_, _, _)
CountLoop(counts, part, k) ==
    IF k > Len(part) THEN counts
    ELSE LET token == part[k]
             old == IF token \in DOMAIN counts THEN counts[token] ELSE 0
         IN  CountLoop([x \in DOMAIN counts \cup {token} |->
                           IF x = token THEN old + 1 ELSE counts[x]],
                       part, k + 1)

\* combinedResult[token] = count in place of += (the variant that overwrites)
AddCountsOverwrite(combined, result) ==
    [x \in DOMAIN combined \cup DOMAIN result |->
        IF x \in DOMAIN result THEN result[x] ELSE combined[x]]

\* Toolkit.cpp:203-205  combinedResult[token] += count for one result
AddCounts(combined, result) ==
    [x \in DOMAIN combined \cup DOMAIN result |->
        (IF x \in DOMAIN combined THEN combined[x] ELSE 0)
      + (IF x \in DOMAIN result THEN result[x] ELSE 0)]

\* Toolkit.cpp:201-206  the merge loop over results
RECURSIVE MergeLoop(_, _, _)
MergeLoop(combined, slots, i) ==
    IF i > Len(slots) THEN combined
    ELSE MergeLoop(AddCounts(combined, slots[i]), slots, i + 1)

\* the loop drawing from one generator declared outside the tasks: a draw
\* is made by generator 0 and its place in the stream moves with the tasks
\* that drew before
RECURSIVE EmbedLoopSharedGen(_, _, _, _)
EmbedLoopSharedGen(slot, part, i, k) ==
    IF k > Len(part) THEN slot
    ELSE EmbedLoopSharedGen(
             [x \in DOMAIN slot \cup {part[k]} |->
                 IF x = part[k]
                   THEN [chunk |-> 0,
                         pos |-> k + Cardinality({t \in DOMAIN ran : ran[t] >= 1})]
                   ELSE slot[x]],
             part, i, k + 1)

\* Toolkit.cpp:313-319  the task of block i: one vector is drawn for every
\* token of the block and stored under the token, replacing an earlier one.
\* rd, gen and dis are locals of the task (Toolkit.cpp:309-311): a vector is
\* represented by the draw that made it, the k-th of the generator of
\* block i.
RECURSIVE EmbedLoop(_, _, _, _)
EmbedLoop(slot, part, i, k) ==
    IF k > Len(part) THEN slot
    ELSE EmbedLoop([x \in DOMAIN slot \cup {part[k]} |->
                       IF x = part[k] THEN [chunk |-> i, pos |-> k]
                                      ELSE slot[x]],
                   part, i, k + 1)

\* an insertion that keeps the vector already present (the variant that
\* lets the lowest chunk win)
EmbedMergeKeepFirst(combined, result) ==
    [x \in DOMAIN combined \cup DOMAIN result |->
        IF x \in DOMAIN combined THEN combined[x] ELSE result[x]]

\* Toolkit.cpp:327-329  combinedEmbeddings[token] = embedding for one result
EmbedMerge(combined, result) ==
    [x \in DOMAIN combined \cup DOMAIN result |->
        IF x \in DOMAIN result THEN result[x] ELSE combined[x]]

\* Toolkit.cpp:326-330  the merge loop over results, in index order
RECURSIVE EmbedMergeLoop(_, _, _)
EmbedMergeLoop(combined, slots, i) ==
    IF i > Len(slots) THEN combined
    ELSE EmbedMergeLoop(EmbedMerge(combined, slots[i]), slots, i + 1)

\* token sequences: prefixes of the tokens of main.cpp:15 and a sequence in
\* which every token but one occurs in several places
RepeatedTokens == <<"a", "b", "a", "c", "b", "a">>
ToolkitInputs == {TokensOf(n) : n \in 0..MaxBatch} \cup {RepeatedTokens}

InitToolkit ==
    /\ NoPool
    /\ NoTokenizer
    /\ op \in {"getBagOfWords", "getEmbeddings"}
    /\ items \in ToolkitInputs
    /\ cpc = "start"
    /\ maxThreads \in 1..MaxThreads
    /\ requested \in -1..(MaxThreads + 1)
    /\ logFile \in LogFiles
    /\ numThreads = requested
    /\ ci = 0
    /\ chunks = <<>>
    /\ futures = <<>>
    /\ fres = <<>>
    /\ results = <<>>
    /\ ret = <<>>
    /\ logged = <<>>
    /\ reads = <<>>

\* Toolkit.cpp:181-189  normalise numThreads, results(numThreads),
\* splitBlocks = splitTokens(tokens, numThreads), ThreadPool pool(numThreads)
ToolkitBegin ==
    /\ cpc = "start"
    /\ numThreads' = Normalise(requested, maxThreads)
    /\ results' = [i \in 1..numThreads' |-> <<>>]
    /\ chunks' = SplitTokens(items, numThreads')
    /\ ConstructPool(numThreads')
    /\ cpc' = "enqueue"
    /\ UNCHANGED <<op, maxThreads, requested, logFile, items, ci, futures, fres, ret>>
    /\ UNCHANGED <<taskVars, prodVars, dtorVars, tokVars, obsVars>>

\* Toolkit.cpp:191-192  pool.enqueue(...) of the task of block ci begins
ToolkitEnqueueLock ==
    /\ cpc = "enqueue"
    /\ ci < numThreads
    /\ EnqueueLock(Main, FALSE)
    /\ UNCHANGED envVars

\* ThreadPool.h:52-54 inside that call
ToolkitEnqueuePush ==
    /\ cpc = "enqueue"
    /\ EnqueuePush(Main)
    /\ UNCHANGED envVars

\* ThreadPool.h:55-56 and Toolkit.cpp:191: the returned future is dropped; ++i
ToolkitEnqueueNotify ==
    /\ cpc = "enqueue"
    /\ EnqueueNotify(Main)
    /\ ci' = IF ci + 1 < numThreads THEN ci + 1 ELSE 0
    /\ cpc' = IF ci + 1 < numThreads THEN "enqueue" ELSE "destroy"
    /\ UNCHANGED <<op, maxThreads, requested, logFile, numThreads, items, chunks,
                   futures, fres, results, ret>>
    /\ UNCHANGED <<tokVars, obsVars>>

\* Toolkit.cpp:199  pool.~ThreadPool(): the destructor is called explicitly
ToolkitDestroy ==
    /\ cpc = "destroy"
    /\ dpc = "none"
    /\ dpc' = "idle"
    /\ UNCHANGED <<poolVars, taskVars, prodVars, dj, dcalls, envVars>>

\* ThreadPool.cpp:42 running the task of block i (task i + 1):
\* Toolkit.cpp:192-196 it counts the tokens of splitBlocks[i] in results[i]
ToolkitWorkerRun(w) ==
    /\ WorkerRun(w)
    /\ results' = [results EXCEPT ![wtask[w]] =
                       IF op = "getBagOfWords"
                         THEN CountLoop(@, chunks[wtask[w]].part, 1)
                         ELSE EmbedLoop(@, chunks[wtask[w]].part, wtask[w], 1)]
    /\ UNCHANGED <<op, cpc, maxThreads, requested, logFile, numThreads, items, ci,
                   chunks, futures, fres, ret>>
    /\ UNCHANGED <<tokVars, obsVars>>

\* the merge started right after the enqueue loop, with no shutdown and no
\* join before it
ToolkitMergeBeforeJoin ==
    /\ cpc = "destroy"
    /\ dpc = "none"
    /\ ret' = [kind |-> "value",
               val |-> IF op = "getBagOfWords"
                         THEN MergeLoop(<<>>, results, 1)
                         ELSE EmbedMergeLoop(<<>>, results, 1)]
    /\ logged' \in WriteToFile(logged, op, ret'.val, logFile)
    /\ cpc' = "leave"
    /\ dpc' = "idle"
    /\ UNCHANGED <<op, maxThreads, requested, logFile, numThreads, items, ci, chunks,
                   futures, fres, results>>
    /\ UNCHANGED <<poolVars, taskVars, prodVars, dj, dcalls, tokVars, reads>>

\* Toolkit.cpp:201-210  the explicit destructor call has returned: merge the
\* results, writeToFile, make the return value; at the end of the scope the
\* destructor of pool is invoked again
ToolkitMerge ==
    /\ cpc = "destroy"
    /\ dpc = "done"
    /\ ret' = [kind |-> "value",
               val |-> IF op = "getBagOfWords"
                         THEN MergeLoop(<<>>, results, 1)
                         ELSE EmbedMergeLoop(<<>>, results, 1)]
    /\ logged' \in WriteToFile(logged, op, ret'.val, logFile)
    /\ cpc' = "leave"
    /\ dpc' = "idle"
    /\ UNCHANGED <<op, maxThreads, requested, logFile, numThreads, items, ci, chunks,
                   futures, fres, results>>
    /\ UNCHANGED <<poolVars, taskVars, prodVars, dj, dcalls, tokVars, reads>>

\* Toolkit.cpp:210  the second destructor call has returned: the call returns
ToolkitLeave ==
    /\ cpc = "leave"
    /\ dpc = "done"
    /\ cpc' = "returned"
    /\ UNCHANGED <<op, maxThreads, requested, logFile, numThreads, items, ci, chunks,
                   futures, fres, results, ret>>
    /\ UNCHANGED <<poolVars, taskVars, prodVars, dtorVars, tokVars, obsVars>>

ToolkitWorkerStep ==
    \E w \in 1..MaxThreads :
        \/ WorkerLock(w) /\ UNCHANGED envVars
        \/ WorkerWait(w) /\ UNCHANGED envVars
        \/ WorkerSpuriousWake(w) /\ UNCHANGED envVars
        \/ WorkerExit(w) /\ UNCHANGED envVars
        \/ WorkerTake(w) /\ UNCHANGED envVars
        \/ ToolkitWorkerRun(w)

NextToolkit ==
    \/ ToolkitBegin
    \/ ToolkitEnqueueLock
    \/ ToolkitEnqueuePush
    \/ ToolkitEnqueueNotify
    \/ ToolkitDestroy
    \/ ToolkitMerge
    \/ ToolkitLeave
    \/ ToolkitWorkerStep
    \/ DtorStep

SpecToolkit == InitToolkit /\ [][NextToolkit]_vars

\* ---------------------------------------------- properties of SpecToolkit
Occurrences(tokens, x) == Cardinality({i \in 1..Len(tokens) : tokens[i] = x})
ChunksHolding(x) == {i \in 1..Len(chunks) : x \in Range(chunks[i].part)}

\* C12: the mapping getBagOfWords returns has exactly the tokens of the
\* input as keys and maps each to the number of its occurrences in the whole
\* input, for every thread count and every order in which the tasks run.
BagOfWordsEqualsSerialCount ==
    (op = "getBagOfWords" /\ cpc \in {"leave", "returned"}) =>
        /\ ret.kind = "value"
        /\ DOMAIN ret.val = Range(items)
        /\ \A x \in Range(items) : ret.val[x] = Occurrences(items, x)

RepeatedTokensCountedInTwoChunks ==
    /\ op = "getBagOfWords"
    /\ cpc = "returned"
    /\ items = RepeatedTokens
    /\ numThreads = 2
    /\ ret.val = ("a" :> 3) @@ ("b" :> 2) @@ ("c" :> 1)

\* C13: getEmbeddings returns one vector for every distinct token of the
\* input and for no other key, and the vector of a token is the one made by
\* the highest-indexed chunk that holds the token (for its last occurrence
\* there), whatever the order in which the tasks ran.
EmbeddingFromHighestChunk ==
    (op = "getEmbeddings" /\ cpc \in {"leave", "returned"}) =>
        /\ ret.kind = "value"
        /\ DOMAIN ret.val = Range(items)
        /\ \A x \in Range(items) :
              LET i == MaxOf(ChunksHolding(x))
              IN  /\ ret.val[x].chunk = i
                  /\ chunks[i].part[ret.val[x].pos] = x
                  /\ \A k \in (ret.val[x].pos + 1)..Len(chunks[i].part) :
                        chunks[i].part[k] # x

TokenInTwoChunksEmbedded ==
    /\ op = "getEmbeddings"
    /\ cpc = "returned"
    /\ numThreads = 2
    /\ \E x \in Range(items) :
          /\ ChunksHolding(x) = {1, 2}
          /\ ret.val[x].chunk = 2
    /\ ran = <<1, 1>>

\* C5: shutdown is idempotent: the second invocation of the destructor on
\* the same pool (Toolkit.cpp:199 and then the end of the scope) does not
\* join an already joined worker and does not fail.
SecondShutdownHasNoEffect ==
    dcalls = 2 => dpc # "failed"

\* The destructor called at the end of the scope joins a worker that the
\* destructor called at Toolkit.cpp:199 has already joined.
SecondShutdownJoinsJoinedWorker ==
    /\ dcalls = 2
    /\ dpc = "failed"
    /\ \A w \in Workers : ~joinable[w]


\* C21: slot i of results is written by task i alone and from its own block
\* alone: it is empty until task i has run and afterwards holds what the
\* tokens of block i give; and the merge reads the slots only after every
\* task has run and every worker has terminated.
SlotsPrivateAndMergedAfterJoin ==
    /\ cpc \notin {"start"} =>
          /\ Len(results) = numThreads
          /\ \A i \in 1..Len(results) :
                IF i \in DOMAIN ran /\ ran[i] >= 1
                  THEN /\ DOMAIN results[i] = Range(chunks[i].part)
                       /\ op = "getBagOfWords" =>
                             \A x \in DOMAIN results[i] :
                                 results[i][x] = Occurrences(chunks[i].part, x)
                  ELSE results[i] = <<>>
    /\ cpc \in {"leave", "returned"} =>
          /\ \A t \in 1..numThreads : t \in accepted /\ ran[t] = 1
          /\ \A w \in Workers : wpc[w] = "done" /\ wtask[w] = 0
          /\ tasks = <<>>

TwoSlotsMergedAfterBothTasksRan ==
    /\ cpc = "leave"
    /\ numThreads = 2
    /\ ran = <<1, 1>>
    /\ results[1] # <<>>
    /\ results[2] # <<>>
    /\ ret.kind = "value"


\* C22: within one batch call the destructor of the pool is invoked once, at
\* the end of the scope: not before the results are aggregated, and never on
\* a pool that has been destroyed already.
ShutdownOnceAtScopeExit ==
    /\ dcalls <= 1
    /\ dpc \notin {"none"} => cpc \in {"leave", "returned", "unwind", "thrown"}
    /\ dpc \in {"locked", "notify", "join", "failed"} => alive

\* getBagOfWords between its enqueue loop and its merge loop: the destructor
\* runs although nothing has been aggregated yet
ShutdownBeforeAggregation ==
    /\ cpc = "destroy"
    /\ dpc = "join"
    /\ dcalls = 1
    /\ ret = <<>>


\* ------------------------------------------------- the pool under fairness
\* Scheduling of the threads of one pool: a thread that can take a step takes
\* it (ThreadPool.cpp:29-42, ThreadPool.h:50-55, ThreadPool.cpp:51-54), and a
\* thread that asks for queueMutex gets it if the mutex is free again and
\* again.  Nothing obliges condition.wait to return without a notification,
\* a caller to submit a task, or the owner to destroy the pool.
FairPool ==
    /\ \A w \in 1..MaxThreads :
          /\ SF_vars(WorkerLock(w) /\ UNCHANGED envVars)
          /\ WF_vars(WorkerWait(w) /\ UNCHANGED envVars)
          /\ WF_vars(WorkerExit(w) /\ UNCHANGED envVars)
          /\ WF_vars(WorkerTake(w) /\ UNCHANGED envVars)
          /\ WF_vars(WorkerRun(w) /\ UNCHANGED envVars)
    /\ \A p \in Producers :
          /\ WF_vars(EnqueuePush(p) /\ UNCHANGED envVars)
          /\ WF_vars(EnqueueNotify(p) /\ UNCHANGED envVars)
    /\ WF_vars(DtorSetStop /\ UNCHANGED envVars)
    /\ WF_vars(DtorNotifyAll /\ UNCHANGED envVars)

\* tasks submitted in SpecPoolFair
MaxFairTasks == 2

\* one submitting thread (ThreadPool.h:43-56)
FairProducerStep ==
    \/ \E b \in BOOLEAN :
          made < MaxFairTasks /\ EnqueueLock(101, b) /\ UNCHANGED envVars
    \/ EnqueuePush(101) /\ UNCHANGED envVars
    \/ EnqueueNotify(101) /\ UNCHANGED envVars

NextPoolFair == WorkerStep \/ FairProducerStep \/ DtorStep

SpecPoolFair == InitPool /\ [][NextPoolFair]_vars /\ FairPool

\* C24: under fair scheduling every task the queue accepted is eventually
\* executed by a worker, whether or not the pool is ever shut down: a
\* notification is never lost between a worker's check of the queue and its
\* going to sleep.
EveryAcceptedTaskEventuallyRuns ==
    \A t \in 1..MaxFairTasks : (t \in accepted) ~> (t \in DOMAIN ran /\ ran[t] = 1)

\* every task was accepted and run, the workers sleep again, no shutdown
AllTasksRanWithoutShutdown ==
    /\ accepted = 1..MaxFairTasks
    /\ \A t \in accepted : ran[t] = 1
    /\ \A w \in Workers : wpc[w] = "waiting"
    /\ ~stop
    /\ dcalls = 0


\* ------------------------------------------------------ the critical section
\* The threads between taking queueMutex and releasing it: a worker in the
\* block of ThreadPool.cpp:29-40, a caller of enqueue in ThreadPool.h:50-54,
\* the destroying thread in ThreadPool.cpp:50-52.
InCritical ==
    {w \in Workers : wpc[w] = "locked"}
        \cup {p \in Producers : ppc[p] = "locked"}
        \cup (IF dpc = "locked" THEN {Main} ELSE {})

\* C25: tasks and stop are only read and written by the thread that holds
\* queueMutex, and at most one thread holds it: the threads inside a
\* critical section are exactly the holder, every step that changes tasks
\* or stop is taken by the holder, and every decision a worker takes on
\* tasks and stop (wait, exit, take) is taken while it is the holder.
QueueAndStopOnlyUnderMutex ==
    /\ [](InCritical = IF queueMutex = Free THEN {} ELSE {queueMutex})
    /\ [][(tasks' # tasks \/ stop' # stop) =>
              /\ queueMutex \in InCritical
              /\ queueMutex \notin InCritical'
              /\ queueMutex' = Free]_vars
    /\ [][\A w \in Workers :
              (wpc[w] = "locked" /\ wpc'[w] # "locked") =>
                  /\ queueMutex = w
                  /\ \A v \in Workers \ {w} : wpc'[v] = wpc[v]
                  /\ ppc' = ppc /\ dpc' = dpc]_vars

\* stop was set with a task still queued; a worker waits for the mutex that
\* a late caller of enqueue holds
StopSetWhileTaskQueued ==
    /\ stop
    /\ tasks # <<>>
    /\ \E w \in Workers : wpc[w] = "lock"
    /\ \E p \in Producers : ppc[p] = "locked"


BlockTasksOnlyReadTokenizer ==
    [][/\ tokenToId' = tokenToId
       /\ idToToken' = idToToken
       /\ unknownId' = unknownId
       /\ \A t \in DOMAIN ran :
             ran'[t] # ran[t] =>
                /\ \A u \in DOMAIN fres : u \in DOMAIN fres' /\ fres'[u] = fres[u]
                /\ DOMAIN fres' \subseteq DOMAIN fres \cup {t}
                /\ results' = results
                /\ ret' = ret
                /\ logged' = logged
                /\ chunks' = chunks
                /\ items' = items]_vars

\* block 1 of a batchEncode, which holds a token the vocabulary has not,
\* has been encoded while block 2 is being encoded by another worker
UnknownTokenEncodedBesideRunningBlock ==
    /\ op = "batchEncode"
    /\ 1 \in DOMAIN ran /\ ran[1] = 1 /\ 1 \in DOMAIN fres
    /\ \E k \in 1..Len(chunks[1].part) :
          \E j \in 1..Len(chunks[1].part[k]) :
              chunks[1].part[k][j] \notin DOMAIN tokenToId
    /\ \E w \in Workers : wpc[w] = "run" /\ wtask[w] = 2
    /\ Len(chunks[2].part) >= 1


\* ------------------------------------------------ generators of the tasks
\* C27: in getEmbeddings every block task draws from a generator of its own:
\* the vector a task stores for a token is the draw of that task's generator
\* at the token's last place in the task's own block, whatever the other
\* tasks have drawn before, and the calling thread draws nothing.
OwnGeneratorPerChunk ==
    op = "getEmbeddings" =>
        /\ \A i \in 1..Len(results) :
              \A x \in DOMAIN results[i] :
                  /\ results[i][x].chunk = i
                  /\ results[i][x].pos =
                         MaxOf({k \in 1..Len(chunks[i].part) : chunks[i].part[k] = x})
        /\ ret # <<>> =>
              \A x \in DOMAIN ret.val :
                  \E i \in 1..Len(results) :
                      x \in DOMAIN results[i] /\ ret.val[x] = results[i][x]

\* block 2 has drawn its vectors while block 1 is still to draw its own
SecondBlockDrewBeforeFirst ==
    /\ op = "getEmbeddings"
    /\ 2 \in DOMAIN ran /\ ran[2] = 1 /\ ran[1] = 0
    /\ DOMAIN results[2] # {}
    /\ \E w \in Workers : wpc[w] = "run" /\ wtask[w] = 1
    /\ Len(chunks[1].part) >= 1


\* --------------------------------------------------- stop and termination
\* C29: stop is never cleared once set; a worker returns from its thread
\* function only in a step taken with stop set and the queue empty; and
\* whenever every worker of the pool (there is at least one) has returned,
\* the queue is empty, and no later step puts a task into it.
StopMonotonicWorkersExitDrained ==
    /\ [][stop => stop']_vars
    /\ [][\A w \in Workers :
              (wpc[w] # "done" /\ wpc'[w] = "done") =>
                  /\ stop /\ tasks = <<>>
                  /\ stop' /\ tasks' = <<>>
                  /\ queueMutex = w]_vars
    /\ [](threads >= 1)
    /\ []((\A w \in Workers : wpc[w] = "done") => (stop /\ tasks = <<>>))
    /\ [][(\A w \in Workers : wpc[w] = "done") => tasks' = <<>>]_vars

\* every worker of a pool of MaxThreads has returned after the tasks were
\* run, and a caller is inside enqueue with one more task
EnqueueAfterAllWorkersReturned ==
    /\ threads = MaxThreads
    /\ \A w \in Workers : wpc[w] = "done"
    /\ accepted # {} /\ \A t \in accepted : ran[t] = 1
    /\ \E p \in Producers : ppc[p] = "locked" /\ ptask[p] \notin accepted


\* ------------------------------- hosts that report no hardware concurrency
\* std::thread::hardware_concurrency() returns 0 when the number of
\* hardware threads is not computable (Tokenizer.cpp:94, 142)
InitHost == InitCall(0..MaxThreads)

\* Tokenizer.cpp:100-126 (148-174) with numThreads = 0: the unsigned division
\* (numSentences + 0 - 1) / 0 has undefined behaviour.  Where the division
\* traps the process ends; where it yields a value the pool is constructed
\* with no worker, both loops run zero times and the empty results is
\* exported and returned.
BlockSizeByZero ==
    /\ cpc = "divide"
    /\ \/ /\ cpc' = "crashed"
          /\ UNCHANGED <<poolVars, dpc, ret, logged>>
       \/ /\ ConstructPool(0)
          /\ cpc' = "leave"
          /\ dpc' = "idle"
          /\ ret' = [kind |-> "value", val |-> <<>>]
          /\ logged' \in WriteToFile(logged, op, <<>>, logFile)
    /\ UNCHANGED <<op, maxThreads, requested, logFile, numThreads, items, ci, chunks,
                   futures, fres, results>>
    /\ UNCHANGED <<taskVars, prodVars, dj, dcalls, tokVars, reads>>

NextHost == NextTokenizer \/ BlockSizeByZero

SpecHost == InitHost /\ [][NextHost]_vars

\* C28: the thread count a batch call uses is in 1..hardware_concurrency()
\* whatever hardware_concurrency() returns: once normalised it is never 0,
\* no chunk size is computed by dividing by 0 and no pool is constructed
\* with zero workers.
ThreadCountNeverZero ==
    /\ cpc \notin {"start"} => numThreads >= 1 /\ numThreads <= maxThreads
    /\ cpc \notin {"divide", "crashed"}
    /\ alive => threads >= 1

\* hardware_concurrency() returned 0 and a call asking for two threads on a
\* batch that is not empty reached the division with numThreads = 0
DivisionByZeroThreadCount ==
    /\ cpc = "divide"
    /\ maxThreads = 0
    /\ requested = 2
    /\ numThreads = 0
    /\ items # <<>>


\* ------------------------------------- batchEncode of the Python build
\* src/BuildPy/pynlptoolkit/Tokenizer.cpp:52-69: one std::async task per
\* sentence.  Task t is the task of sentence t; cpc runs through "astart",
\* "alaunch", "aget", "returned".  The constructor and encode of that file
\* (lines 8-35) are those of src/Tokenizer.cpp without the export.

\* a call of one of the two batchEncode implementations on the same inputs
InitBuilds ==
    /\ NoPool
    /\ \E v \in VocabLists : TokenizerInit(v)
    /\ op \in {"batchEncode", "asyncBatchEncode"}
    /\ items \in EncodeBatches
    /\ cpc = IF op = "batchEncode" THEN "start" ELSE "astart"
    /\ maxThreads \in 1..MaxThreads
    /\ requested \in -1..(MaxThreads + 1)
    /\ logFile \in LogFiles
    /\ numThreads = requested
    /\ ci = 0
    /\ chunks = <<>>
    /\ futures = <<>>
    /\ fres = <<>>
    /\ results = <<>>
    /\ ret = <<>>
    /\ logged = <<>>
    /\ reads = <<>>

\* BuildPy Tokenizer.cpp:53-57  numThreads is recomputed (and not used
\* again), results gets one empty element per sentence
AsyncBegin ==
    /\ cpc = "astart"
    /\ numThreads' = IF requested = -1 THEN maxThreads
                                        ELSE Min(requested, Len(items))
    /\ results' = [i \in 1..Len(items) |-> <<>>]
    /\ cpc' = "alaunch"
    /\ UNCHANGED <<op, maxThreads, requested, logFile, items, ci, chunks, futures,
                   fres, ret>>
    /\ UNCHANGED <<poolVars, taskVars, prodVars, dtorVars, tokVars, obsVars>>

\* BuildPy Tokenizer.cpp:59-63  futures.push_back(std::async(launch::async,
\* ...)): a thread is started for sentence ci + 1
AsyncLaunch ==
    /\ cpc = "alaunch"
    /\ ci < Len(items)
    /\ made' = made + 1
    /\ fut' = fut @@ ((made + 1) :> "pending")
    /\ ran' = ran @@ ((made + 1) :> 0)
    /\ futures' = Append(futures, made + 1)
    /\ ci' = ci + 1
    /\ UNCHANGED <<op, cpc, maxThreads, requested, logFile, numThreads, items,
                   chunks, fres, results, ret>>
    /\ UNCHANGED <<poolVars, throws, accepted, rejected, taken, prodVars,
                   dtorVars, tokVars, obsVars>>

\* BuildPy Tokenizer.cpp:59,65  the first loop ends, the second begins
AsyncLaunched ==
    /\ cpc = "alaunch"
    /\ ci = Len(items)
    /\ cpc' = "aget"
    /\ ci' = 0
    /\ UNCHANGED <<op, maxThreads, requested, logFile, numThreads, items, chunks,
                   futures, fres, results, ret>>
    /\ UNCHANGED <<poolVars, taskVars, prodVars, dtorVars, tokVars, obsVars>>

\* BuildPy Tokenizer.cpp:60-62,24-35  the thread of task t runs
\* this->encode(sentences[t]) and stores the value in its future
AsyncRun(t) ==
    /\ op = "asyncBatchEncode"
    /\ t \in DOMAIN fut
    /\ fut[t] = "pending"
    /\ fut' = [fut EXCEPT ![t] = "value"]
    /\ fres' = fres @@ (t :> Encode(items[t]))
    /\ ran' = [ran EXCEPT ![t] = @ + 1]
    /\ tokenToId' = EncodeLookups(tokenToId, items[t], Len(items[t]))
    /\ UNCHANGED <<op, cpc, maxThreads, requested, logFile, numThreads, items, ci,
                   chunks, futures, results, ret>>
    /\ UNCHANGED <<poolVars, made, throws, accepted, rejected, taken, prodVars,
                   dtorVars, idToToken, unknownId, obsVars>>

\* the second loop taking the value of any finished task instead of
\* futures[i]
AsyncGetAnyReady ==
    /\ cpc = "aget"
    /\ ci < Len(items)
    /\ \E t \in DOMAIN fut :
          /\ fut[t] = "value"
          /\ results' = [results EXCEPT ![ci + 1] = fres[t]]
    /\ ci' = ci + 1
    /\ UNCHANGED <<op, cpc, maxThreads, requested, logFile, numThreads, items,
                   chunks, futures, fres, ret>>
    /\ UNCHANGED <<poolVars, taskVars, prodVars, dtorVars, tokVars, obsVars>>

\* BuildPy Tokenizer.cpp:65-67  results[i] = futures[i].get(): blocks until
\* the task has finished
AsyncGet ==
    /\ cpc = "aget"
    /\ ci < Len(items)
    /\ fut[futures[ci + 1]] = "value"
    /\ results' = [results EXCEPT ![ci + 1] = fres[futures[ci + 1]]]
    /\ ci' = ci + 1
    /\ UNCHANGED <<op, cpc, maxThreads, requested, logFile, numThreads, items,
                   chunks, futures, fres, ret>>
    /\ UNCHANGED <<poolVars, taskVars, prodVars, dtorVars, tokVars, obsVars>>

\* BuildPy Tokenizer.cpp:68  return results;
AsyncReturn ==
    /\ cpc = "aget"
    /\ ci = Len(items)
    /\ ret' = [kind |-> "value", val |-> results]
    /\ cpc' = "returned"
    /\ UNCHANGED <<op, maxThreads, requested, logFile, numThreads, items, ci, chunks,
                   futures, fres, results>>
    /\ UNCHANGED <<poolVars, taskVars, prodVars, dtorVars, tokVars, obsVars>>

NextAsync ==
    \/ AsyncBegin
    \/ AsyncLaunch
    \/ AsyncLaunched
    \/ \E t \in 1..MaxBatch : AsyncRun(t)
    \/ AsyncGet
    \/ AsyncReturn

NextBuilds == NextTokenizer \/ NextAsync

SpecBuilds == InitBuilds /\ [][NextBuilds]_vars

\* C31: the two implementations of batchEncode are equivalent: on the same
\* vocabulary, batch and numThreads neither ends with an error, and what
\* either returns is the sequence whose i-th element is encode of the i-th
\* sentence, so both return the same sequence.
BuildsReturnSameEncoding ==
    /\ cpc \notin {"unwind", "thrown", "divide", "crashed"}
    /\ cpc = "returned" =>
          /\ ret.kind = "value"
          /\ Len(ret.val) = Len(items)
          /\ \A i \in 1..Len(items) : ret.val[i] = Encode(items[i])

\* the async implementation returned a full batch whose first two elements
\* differ
AsyncBatchReturned ==
    /\ op = "asyncBatchEncode"
    /\ cpc = "returned"
    /\ Len(items) = MaxBatch
    /\ Len(ret.val) = MaxBatch
    /\ ret.val[1] # ret.val[2]

=============================================================================
